---- MODULE Spec2Model ----
(***************************************************************************)
(* Q-TRAX SDK: the dynamic multi-agent annealing scheduler                 *)
(* (qtrax_sdk/core/dynamic_annealer.py) with the graph model               *)
(* (models/problem.py), the agents (models/agent.py), the route cost       *)
(* evaluator (core/annealer.py) and the perturbation operators             *)
(* (core/neighbor.py).                                                     *)
(*                                                                         *)
(* Every draw of Python's random module is a nondeterministic choice.      *)
(* A cost is kept exactly as the pair [miss, sum]: the number of 1e9       *)
(* penalties and the sum of the weights of the edges that exist, i.e. the  *)
(* float miss * 1e9 + sum.  Temperatures are in thousandths.               *)
(***************************************************************************)
EXTENDS Integers, Sequences, FiniteSets, TLC

\* ------------------------------------------------------------------ bounds
MaxTick == 3        \* largest max_tick a run is configured with
MiniIter == 2       \* mini_iter of the run configurations
MaxWeight == 2      \* edge weights are 1..MaxWeight
MaxHookOps == 1     \* graph mutations the event callback makes in one run
MaxCallerSteps == 2 \* step_to calls a caller makes on an agent outside a run
MaxSeed == 3        \* random seeds are 0..MaxSeed
MaxOtherDraws == 2  \* draws and constructions between __init__ and run
SeedTicks == 2      \* max_tick of the seeded runs
MaxRouteLen == 4    \* the longest route a cost is computed for

\* --------------------------------------------------------------- constants
ExpUnderflow == 745 \* math.exp(x) is 0.0 for x below about -745

\* ------------------------------------------------------------------ values
None == [none |-> TRUE]

Range(s) == {s[i] : i \in 1..Len(s)}

Cost(m, s) == [miss |-> m, sum |-> s]

\* a < b for two costs below 1e9 of weight each
CostLess(a, b) == a.miss < b.miss \/ (a.miss = b.miss /\ a.sum < b.sum)

\* ------------------------------------------------------------ Graph Model
\* Problem.graph is a function from the directed edges that exist to weights.
has_edge(g, s, t) == <<s, t>> \in DOMAIN g

get_neighbors(g, n) == {t \in {e[2] : e \in DOMAIN g} : has_edge(g, n, t)}

\* a bug: a missing edge raises the KeyError of the dict lookup
DistanceKeyError(g, s, t) ==
    IF has_edge(g, s, t) THEN [ok |-> TRUE, value |-> g[<<s, t>>]]
    ELSE [ok |-> FALSE, value |-> "KeyError"]

\* Problem.distance: the weight, or the ValueError
distance(g, s, t) == IF has_edge(g, s, t) THEN [ok |-> TRUE, value |-> g[<<s, t>>]]
                     ELSE [ok |-> FALSE, value |-> "ValueError"]

\* a bug: removing an edge removes every edge from its source
RemoveEdgesFromSource(g, s, t) ==
    IF has_edge(g, s, t)
    THEN [e \in {x \in DOMAIN g : x[1] # s} |-> g[e]]
    ELSE g

remove_edge(g, s, t) == IF has_edge(g, s, t)
                        THEN [e \in DOMAIN g \ {<<s, t>>} |-> g[e]]
                        ELSE g

\* a bug: an existing edge keeps its weight
AddEdgeKeepsWeight(g, s, t, w) ==
    [e \in DOMAIN g \cup {<<s, t>>} |-> IF e \in DOMAIN g THEN g[e] ELSE w]

add_edge(g, s, t, w) == [e \in DOMAIN g \cup {<<s, t>>} |->
                            IF e = <<s, t>> THEN w ELSE g[e]]

\* Problem.update_edge_weight: the new graph, or the KeyError
update_edge_weight(g, s, t, w) ==
    IF has_edge(g, s, t)
    THEN [ok |-> TRUE, graph |-> [g EXCEPT ![<<s, t>>] = w]]
    ELSE [ok |-> FALSE, graph |-> g]

\* ---------------------------------------------------- Route Cost Evaluator
\* the exception tsp_total_cost catches
CaughtByCost == "ValueError"

\* a bug: one penalty for the whole route, however many edges are missing
RECURSIVE CostFromOnePenalty(_, _, _)
CostFromOnePenalty(route, g, i) ==
    IF i >= Len(route) THEN Cost(0, 0)
    ELSE LET d == distance(g, route[i], route[i + 1])
             rest == CostFromOnePenalty(route, g, i + 1)
         IN  IF d.ok THEN Cost(rest.miss, rest.sum + d.value)
             ELSE Cost(1, rest.sum)

RECURSIVE CostFrom(_, _, _)
CostFrom(route, g, i) ==
    IF i >= Len(route) THEN Cost(0, 0)
    ELSE LET d == distance(g, route[i], route[i + 1])
             rest == CostFrom(route, g, i + 1)
         IN  IF d.ok THEN Cost(rest.miss, rest.sum + d.value)
             ELSE Cost(rest.miss + 1, rest.sum)

tsp_total_cost(route, g) == CostFrom(route, g, 1)

\* --------------------------------------------------- Perturbation Operator
Solution(route, cost) == [routes |-> route, total_cost |-> cost]

\* a bug: the sampled range begins at index 0
IndexPairsFromZero(n) == {p \in (0..(n - 2)) \X (0..(n - 2)) : p[1] < p[2]}

\* random.sample(range(1, n - 1), 2), sorted: 0-based i < j in 1..n-2
IndexPairs(n) == {p \in (1..(n - 2)) \X (1..(n - 2)) : p[1] < p[2]}

\* route[i:j] = reversed(route[i:j]) with 0-based i, j
ReverseSlice(route, i, j) ==
    [p \in 1..Len(route) |->
        IF i + 1 <= p /\ p <= j THEN route[(i + 1) + (j - p)] ELSE route[p]]

\* random.shuffle(s): every rearrangement of s
Shuffles(s) == {[i \in 1..Len(s) |-> s[p[i]]] : p \in Permutations(1..Len(s))}

\* segment = route[i:j]; random.shuffle(segment); route[i:j] = segment
ShuffleSlice(route, i, j) ==
    {[p \in 1..Len(route) |->
        IF i + 1 <= p /\ p <= j THEN seg[p - i] ELSE route[p]] :
     seg \in Shuffles(SubSeq(route, i + 1, j))}

tsp_2opt_neighbor(sol) ==
    IF Len(sol.routes) < 4
    THEN {Solution(sol.routes, sol.total_cost)}
    ELSE {Solution(ReverseSlice(sol.routes, p[1], p[2]), None) :
             p \in IndexPairs(Len(sol.routes))}

\* jump_prob is in thousandths; random.random() is in [0, 1)
quantum_jump_neighbor(sol, jump_prob) ==
    (IF Len(sol.routes) < 4 \/ jump_prob < 1000
     THEN tsp_2opt_neighbor(sol) ELSE {})
    \cup
    (IF Len(sol.routes) >= 4 /\ jump_prob > 0
     THEN UNION {{Solution(r, None) : r \in ShuffleSlice(sol.routes, p[1], p[2])} :
                    p \in IndexPairs(Len(sol.routes))}
     ELSE {})

\* ------------------------------------------------------------------ Agent
\* a bug: a new agent is neither active, completed nor blocked
AgentIdle(agent_id, start_node, goal_node) ==
    [id |-> agent_id, start_node |-> start_node, current_node |-> start_node,
     goal_node |-> goal_node, route |-> <<start_node>>, status |-> "idle"]

Agent(agent_id, start_node, goal_node) ==
    [id |-> agent_id, start_node |-> start_node, current_node |-> start_node,
     goal_node |-> goal_node, route |-> <<start_node>>, status |-> "active"]

\* a bug: reaching the goal does not complete the agent
StepToKeepsStatus(a, next_node) ==
    [a EXCEPT !.current_node = next_node, !.route = Append(@, next_node)]

\* a bug: the route restarts at the new node
StepToOverwrite(a, next_node) ==
    [a EXCEPT !.current_node = next_node,
              !.route = <<next_node>>,
              !.status = IF next_node = a.goal_node THEN "completed" ELSE @]

step_to(a, next_node) ==
    [a EXCEPT !.current_node = next_node,
              !.route = Append(@, next_node),
              !.status = IF next_node = a.goal_node THEN "completed" ELSE @]

\* a bug: reset without its "self.route = [new_start]"
ResetKeepsRoute(a, new_start, new_goal) ==
    [a EXCEPT !.start_node = new_start, !.current_node = new_start,
              !.goal_node = new_goal, !.status = "active"]

reset(a, new_start, new_goal) ==
    [a EXCEPT !.start_node = new_start, !.current_node = new_start,
              !.goal_node = new_goal, !.route = <<new_start>>,
              !.status = "active"]

\* ----------------------------------------------------- insertion-ordered dict
\* A Python dict is a sequence of [key, value] entries in insertion order.
DictKeys(d) == {d[i].key : i \in 1..Len(d)}

DictIndex(d, k) == CHOOSE i \in 1..Len(d) : d[i].key = k

DictGet(d, k) == d[DictIndex(d, k)].value

\* d[k] = v
DictSet(d, k, v) ==
    IF k \in DictKeys(d)
    THEN [d EXCEPT ![DictIndex(d, k)].value = v]
    ELSE Append(d, [key |-> k, value |-> v])

\* a bug: the entry stays
DictDelNothing(d, k) == d

\* del d[k]
DictDel(d, k) ==
    LET i == DictIndex(d, k)
    IN  SubSeq(d, 1, i - 1) \o SubSeq(d, i + 1, Len(d))

\* -------------------------------------------------------- Collision Arbiter
\* reverse_map.setdefault(node, []).append(aid) for every entry, in order
RECURSIVE ReverseMap(_, _, _)
ReverseMap(proposed, i, reverse_map) ==
    IF i > Len(proposed) THEN reverse_map
    ELSE LET aid == proposed[i].key
             node == proposed[i].value
             aids == IF node \in DictKeys(reverse_map)
                     THEN DictGet(reverse_map, node) ELSE <<>>
         IN  ReverseMap(proposed, i + 1,
                        DictSet(reverse_map, node, Append(aids, aid)))

\* a bug: the test len(aids) > 1 left out
RECURSIVE ExtendCollisionsAll(_, _)
ExtendCollisionsAll(reverse_map, i) ==
    IF i > Len(reverse_map) THEN <<>>
    ELSE reverse_map[i].value \o ExtendCollisionsAll(reverse_map, i + 1)

\* collisions.extend(aids) for every node claimed by more than one agent
RECURSIVE ExtendCollisions(_, _)
ExtendCollisions(reverse_map, i) ==
    IF i > Len(reverse_map) THEN <<>>
    ELSE (IF Len(reverse_map[i].value) > 1 THEN reverse_map[i].value ELSE <<>>)
         \o ExtendCollisions(reverse_map, i + 1)

_detect_collisions(proposed) ==
    ExtendCollisions(ReverseMap(proposed, 1, <<>>), 1)

\* --------------------------------------------- Single-Agent Local Annealer
\* the position of the first x in s (list.index)
IndexOf(s, x) == CHOOSE i \in 1..Len(s) : s[i] = x /\ \A j \in 1..(i - 1) : s[j] # x

\* a bug: the current node is put in front without the swap
AnchorRoutePrepend(shuffled, cur) ==
    LET front == IF shuffled[1] # cur THEN <<cur>> \o shuffled ELSE shuffled
    IN  IF front[Len(front)] # cur THEN Append(front, cur) ELSE front

\* steps 1-2 of _local_sa after the shuffle: current node first and last
AnchorRoute(shuffled, cur) ==
    LET front == IF shuffled[1] # cur
                 THEN IF cur \in Range(shuffled)
                      THEN [shuffled EXCEPT ![1] = cur,
                                            ![IndexOf(shuffled, cur)] = shuffled[1]]
                      ELSE <<cur>> \o shuffled
                 ELSE shuffled
    IN  IF front[Len(front)] # cur THEN Append(front, cur) ELSE front

InitialRoutes(node_ids, cur) == {AnchorRoute(r, cur) : r \in Shuffles(node_ids)}

\* _acceptance_probability(old, new, temperature) is 1.0
AcceptCertain(old_cost, new_cost) == ~CostLess(old_cost, new_cost)

\* _acceptance_probability(old, new, temperature) is above 0.0: exp((old - new) /
\* (temperature + 1e-9)) underflows to 0.0 when a penalty is added (the start
\* temperatures are far below 1e6) or the quotient is below -ExpUnderflow
AcceptPossible(old_cost, new_cost, temperature) ==
    \/ AcceptCertain(old_cost, new_cost)
    \/ /\ new_cost.miss = old_cost.miss
       /\ (new_cost.sum - old_cost.sum) * 1000 < ExpUnderflow * temperature

\* temperature *= cooling_rate
Cool(temperature, cfg) == (temperature * cfg.cooling_num) \div cfg.cooling_den

\* one pass of the mini-SA loop body from frame f with neighbour nb; accept says
\* whether random.random() < ap
SAStep(f, nb, g, accept, cfg) ==
    LET neighbor_cost == tsp_total_cost(nb.routes, g)
        neighbor == Solution(nb.routes, neighbor_cost)
    IN  [best_solution |-> IF accept THEN neighbor ELSE f.best_solution,
         best_cost |-> IF accept THEN neighbor_cost ELSE f.best_cost,
         temperature |-> Cool(f.temperature, cfg),
         iter |-> f.iter + 1]

NoFrame == [best_solution |-> Solution(<<>>, None), best_cost |-> None,
            temperature |-> 0, iter |-> 0]

\* ---------------------------------------------------------- configurations
Complete(ns, w) == [e \in {p \in ns \X ns : p[1] # p[2]} |-> w]

\* the problems a run starts from: node list and weighted directed edges
Problems ==
    { [nodes |-> <<1, 2, 3>>, graph |-> Complete({1, 2, 3}, 1)],
      [nodes |-> <<1, 2, 3>>,
       graph |-> (<<1, 2>> :> 1) @@ (<<2, 1>> :> 1) @@ (<<1, 3>> :> 1)],
      [nodes |-> <<1, 2, 3>>, graph |-> (<<1, 3>> :> 1) @@ (<<2, 3>> :> 1)],
      [nodes |-> <<1, 2, 3, 4>>,
       graph |-> [e \in DOMAIN Complete({1, 2, 3, 4}, 1) |->
                     IF e[2] = (e[1] % 4) + 1 THEN 1 ELSE MaxWeight]] }

\* the agent lists load_agents_from_config builds
AgentLists ==
    { <<>>,
      <<Agent("A1", 1, 3)>>,
      <<Agent("A1", 1, 1)>>,
      <<Agent("A1", 1, 3), Agent("A2", 2, 3)>>,
      <<Agent("A1", 1, 4)>> }

\* mini_iter, start_temp, cooling_rate, min_temp, quantum_jump_prob: the defaults
\* of DynamicAnnealer.__init__ (with the bounded mini_iter), and a schedule
\* that drops below min_temp at once
DefaultConfig ==
    [mini_iter |-> MiniIter, start_temp |-> 100000, cooling_num |-> 9,
     cooling_den |-> 10, min_temp |-> 10, quantum_jump_prob |-> 50]

RunConfigs ==
    { DefaultConfig,
      [mini_iter |-> MiniIter, start_temp |-> 15, cooling_num |-> 1,
       cooling_den |-> 2, min_temp |-> 10, quantum_jump_prob |-> 0] }

\* the edges the event callback works on (on_tick of dynamic_solve: 1 -> 2)
HookEdges == {<<1, 2>>, <<1, 3>>}

\* dynamic_solve's sanity check of the agents' start and goal ids
KnownNodes(agent_list, node_list) ==
    \A i \in 1..Len(agent_list) :
        /\ agent_list[i].start_node \in Range(node_list)
        /\ agent_list[i].goal_node \in Range(node_list)

\* ------------------------------------------------------------------- state
VARIABLES
    nodes,           \* problem.nodes: the node ids, in list order
    graph,           \* problem.graph
    loaded_graph,    \* problem.graph as the problem was constructed
    agents,          \* self.agents: the list of Agent records
    max_tick,        \* self.max_tick
    event_callback,  \* TRUE when a callback is configured
    cfg,             \* the annealing options of the run
    tick,            \* the loop variable of run; -1 while unbound
    pc,              \* the position of run
    ai,              \* the position of "for agent in self.agents"
    proposed_moves,  \* the tick's dict agent id -> next node
    frame,           \* the locals of _local_sa while it runs
    converged,       \* TRUE once the loop was left by its break
    error,           \* the exception that ended run, "none" if none
    hook_calls,      \* the ticks the callback was called with, in order
    hook_ops,        \* graph mutations made by the callback so far
    collided,        \* ids of the agents set to blocked in the current tick
    moved,           \* the moves committed in the current tick
    call,            \* a direct call of one function: its name and arguments
    result,          \* what that call returned, None before it returns
    procs            \* the processes of a seeded comparison: each one's state
                     \* of the random module, its annealer and its agent

vars == <<nodes, graph, loaded_graph, agents, max_tick, event_callback, cfg, tick, pc, ai,
          proposed_moves, frame, converged, error, hook_calls, hook_ops,
          collided, moved, call, result, procs>>

\* what no step of run changes
config_vars == <<nodes, loaded_graph, max_tick, event_callback, cfg, call, result,
                 procs>>

\* the locals of run and the history before its first step
RunLocalsInit ==
    /\ tick = -1
    /\ ai = 1
    /\ proposed_moves = <<>>
    /\ frame = NoFrame
    /\ converged = FALSE
    /\ error = "none"
    /\ hook_calls = <<>>
    /\ hook_ops = 0
    /\ collided = {}
    /\ moved = {}

Init ==
    /\ \E p \in Problems :
          /\ nodes = p.nodes
          /\ graph = p.graph
          /\ loaded_graph = p.graph
    /\ agents \in {a \in AgentLists : KnownNodes(a, nodes)}
    /\ max_tick \in 0..MaxTick
    /\ event_callback \in BOOLEAN
    /\ cfg \in RunConfigs
    /\ pc = "loop"
    /\ RunLocalsInit
    /\ call = None
    /\ result = None
    /\ procs = <<>>

\* ---------------------------------------------------------- Tick Scheduler
\* next(a for a in self.agents if a.id == aid)
AgentById(ags, aid) ==
    CHOOSE i \in 1..Len(ags) : ags[i].id = aid /\ \A j \in 1..(i - 1) : ags[j].id # aid

all_completed(ags) == \A i \in 1..Len(ags) : ags[i].status = "completed"

\* a bug: the colliding agents keep their proposals
DropNoCollisions(proposed, collisions, i) == proposed

\* step 3: del proposed_moves[aid] for every colliding agent id
RECURSIVE DropCollisions(_, _, _)
DropCollisions(proposed, collisions, i) ==
    IF i > Len(collisions) THEN proposed
    ELSE DropCollisions(DictDel(proposed, collisions[i]), collisions, i + 1)

\* a bug: the arbitration also records the stay in the route history
BlockAndRecord(ags, collisions, i) ==
    [k \in 1..Len(ags) |->
        IF ags[k].id \in Range(collisions)
        THEN [ags[k] EXCEPT !.status = "blocked",
                            !.route = Append(@, ags[k].current_node)]
        ELSE ags[k]]

\* step 3: blocked_agent.status = 'blocked' for every colliding agent id
RECURSIVE BlockCollisions(_, _, _)
BlockCollisions(ags, collisions, i) ==
    IF i > Len(collisions) THEN ags
    ELSE BlockCollisions(
            [ags EXCEPT ![AgentById(ags, collisions[i])].status = "blocked"],
            collisions, i + 1)

\* step 4: moving_agent.step_to(next_node) for every remaining entry
RECURSIVE CommitMoves(_, _, _)
CommitMoves(ags, proposed, i) ==
    IF i > Len(proposed) THEN ags
    ELSE LET k == AgentById(ags, proposed[i].key)
         IN  CommitMoves([ags EXCEPT ![k] = step_to(ags[k], proposed[i].value)],
                         proposed, i + 1)

\* a bug: step 5 left out
UnblockAgentNever(a) == a

\* a bug: step 5 without its status test
UnblockAgentAll(a) == [a EXCEPT !.status = "active"]

\* step 5: every blocked agent is active again
UnblockAgent(a) == IF a.status = "blocked" THEN [a EXCEPT !.status = "active"] ELSE a

\* for tick in range(self.max_tick): the next index is in range
TickStart ==
    /\ pc = "loop"
    /\ tick + 1 < max_tick
    /\ tick' = tick + 1
    /\ pc' = "hook"
    /\ UNCHANGED <<config_vars, graph, agents, ai, proposed_moves, frame,
                   converged, error, hook_calls, hook_ops, collided, moved>>

\* the range is used up: the loop ends without a break
LoopExhausted ==
    /\ pc = "loop"
    /\ ~(tick + 1 < max_tick)
    /\ pc' = "end"
    /\ UNCHANGED <<config_vars, graph, agents, tick, ai, proposed_moves, frame,
                   converged, error, hook_calls, hook_ops, collided, moved>>

\* step 2 begins: proposed_moves = {}
BeginProposals ==
    /\ proposed_moves' = <<>>
    /\ ai' = 1
    /\ collided' = {}
    /\ moved' = {}
    /\ pc' = "propose"
    /\ UNCHANGED <<config_vars, agents, tick, frame, converged, error>>

\* an exception leaves run
Raise(e) ==
    /\ error' = e
    /\ pc' = "raised"
    /\ UNCHANGED <<config_vars, agents, tick, ai, proposed_moves, frame,
                   converged, collided, moved>>

\* step 1 with no callback configured
NoCallback ==
    /\ pc = "hook"
    /\ ~event_callback
    /\ BeginProposals
    /\ UNCHANGED <<graph, hook_calls, hook_ops>>

\* a bug: step 1 goes on without calling the configured callback
CallbackSkipped ==
    /\ pc = "hook"
    /\ event_callback
    /\ BeginProposals
    /\ UNCHANGED <<graph, hook_calls, hook_ops>>

\* step 1: the callback returns without touching the graph
CallbackReturns ==
    /\ pc = "hook"
    /\ event_callback
    /\ hook_calls' = Append(hook_calls, tick)
    /\ BeginProposals
    /\ UNCHANGED <<graph, hook_ops>>

\* step 1: the callback removes an edge (problem.remove_edge)
CallbackRemovesEdge ==
    /\ pc = "hook"
    /\ event_callback
    /\ hook_ops < MaxHookOps
    /\ \E e \in HookEdges :
          /\ graph' = remove_edge(graph, e[1], e[2])
          /\ hook_ops' = hook_ops + 1
    /\ hook_calls' = Append(hook_calls, tick)
    /\ BeginProposals

\* step 1: the callback adds an edge (problem.add_edge)
CallbackAddsEdge ==
    /\ pc = "hook"
    /\ event_callback
    /\ hook_ops < MaxHookOps
    /\ \E e \in HookEdges, w \in 1..MaxWeight :
          /\ graph' = add_edge(graph, e[1], e[2], w)
          /\ hook_ops' = hook_ops + 1
    /\ hook_calls' = Append(hook_calls, tick)
    /\ BeginProposals

\* step 1: the callback reweights an edge (problem.update_edge_weight); the
\* KeyError of a missing edge leaves the callback and run
CallbackUpdatesWeight ==
    /\ pc = "hook"
    /\ event_callback
    /\ hook_ops < MaxHookOps
    /\ hook_calls' = Append(hook_calls, tick)
    /\ \E e \in HookEdges, w \in 1..MaxWeight :
          /\ hook_ops' = hook_ops + 1
          /\ LET r == update_edge_weight(graph, e[1], e[2], w)
             IN  IF r.ok
                 THEN graph' = r.graph /\ BeginProposals
                 ELSE graph' = graph /\ Raise("KeyError")

\* step 1: the callback raises; run has no handler around the call
CallbackRaises ==
    /\ pc = "hook"
    /\ event_callback
    /\ hook_calls' = Append(hook_calls, tick)
    /\ Raise("CallbackError")
    /\ UNCHANGED <<graph, hook_ops>>

\* step 2: an agent that is not active is skipped
SkipInactive ==
    /\ pc = "propose"
    /\ ai <= Len(agents)
    /\ agents[ai].status # "active"
    /\ ai' = ai + 1
    /\ UNCHANGED <<config_vars, graph, agents, tick, pc, proposed_moves, frame,
                   converged, error, hook_calls, hook_ops, collided, moved>>

\* step 2: an active agent at its goal is marked completed
MarkCompleted ==
    /\ pc = "propose"
    /\ ai <= Len(agents)
    /\ agents[ai].status = "active"
    /\ agents[ai].current_node = agents[ai].goal_node
    /\ agents' = [agents EXCEPT ![ai].status = "completed"]
    /\ ai' = ai + 1
    /\ UNCHANGED <<config_vars, graph, tick, pc, proposed_moves, frame,
                   converged, error, hook_calls, hook_ops, collided, moved>>

\* _local_sa steps 1-3: the shuffled, anchored initial route and its cost
LocalSAStart ==
    /\ pc = "propose"
    /\ ai <= Len(agents)
    /\ agents[ai].status = "active"
    /\ agents[ai].current_node # agents[ai].goal_node
    /\ \E r \in InitialRoutes(nodes, agents[ai].current_node) :
          LET c == tsp_total_cost(r, graph)
          IN  frame' = [best_solution |-> Solution(r, c), best_cost |-> c,
                        temperature |-> cfg.start_temp, iter |-> 0]
    /\ pc' = IF cfg.mini_iter > 0 THEN "sa" ELSE "extract"
    /\ UNCHANGED <<config_vars, graph, agents, tick, ai, proposed_moves,
                   converged, error, hook_calls, hook_ops, collided, moved>>

\* _local_sa step 4: one pass of the mini-SA loop
SAIterate ==
    /\ pc = "sa"
    /\ \E nb \in quantum_jump_neighbor(frame.best_solution, cfg.quantum_jump_prob),
          accept \in BOOLEAN :
          LET nc == tsp_total_cost(nb.routes, graph)
          IN  /\ accept => AcceptPossible(frame.best_cost, nc, frame.temperature)
              /\ ~accept => ~AcceptCertain(frame.best_cost, nc)
              /\ frame' = SAStep(frame, nb, graph, accept, cfg)
    /\ pc' = IF frame'.temperature < cfg.min_temp \/ frame'.iter >= cfg.mini_iter
             THEN "extract" ELSE "sa"
    /\ UNCHANGED <<config_vars, graph, agents, tick, ai, proposed_moves,
                   converged, error, hook_calls, hook_ops, collided, moved>>

\* a bug: the index of current_node is not advanced
NextHopsStay(routes, cur, g) ==
    IF cur \in Range(routes)
    THEN {routes[IndexOf(routes, cur)]}
    ELSE get_neighbors(g, cur)

\* the node after current_node in the returned cycle; the fallback when
\* current_node is not in it
NextHops(routes, cur, g) ==
    IF cur \in Range(routes)
    THEN {routes[((IndexOf(routes, cur) - 1 + 1) % Len(routes)) + 1]}
    ELSE get_neighbors(g, cur)

\* step 2: the agent's proposal is recorded (or the agent blocked when the
\* fallback finds no neighbour)
ExtractNextHop ==
    /\ pc = "extract"
    /\ LET a == agents[ai]
           hops == NextHops(frame.best_solution.routes, a.current_node, graph)
       IN  IF hops = {}
           THEN /\ agents' = [agents EXCEPT ![ai].status = "blocked"]
                /\ collided' = collided \cup {a.id}
                /\ proposed_moves' = proposed_moves
           ELSE /\ \E next_node \in hops :
                      proposed_moves' = DictSet(proposed_moves, a.id, next_node)
                /\ UNCHANGED <<agents, collided>>
    /\ frame' = NoFrame
    /\ ai' = ai + 1
    /\ pc' = "propose"
    /\ UNCHANGED <<config_vars, graph, tick, converged, error, hook_calls,
                   hook_ops, moved>>

\* step 3: colliding agents lose their proposal and are blocked
Arbitrate ==
    /\ pc = "propose"
    /\ ai > Len(agents)
    /\ LET collisions == _detect_collisions(proposed_moves)
       IN  /\ proposed_moves' = DropCollisions(proposed_moves, collisions, 1)
           /\ agents' = BlockCollisions(agents, collisions, 1)
           /\ collided' = collided \cup Range(collisions)
    /\ pc' = "commit"
    /\ UNCHANGED <<config_vars, graph, tick, ai, frame, converged, error,
                   hook_calls, hook_ops, moved>>

\* step 4: the remaining proposals are committed
Commit ==
    /\ pc = "commit"
    /\ agents' = CommitMoves(agents, proposed_moves, 1)
    /\ moved' = {[id |-> proposed_moves[i].key,
                  from |-> agents[AgentById(agents, proposed_moves[i].key)].current_node,
                  to |-> proposed_moves[i].value] : i \in 1..Len(proposed_moves)}
    /\ pc' = "unblock"
    /\ UNCHANGED <<config_vars, graph, tick, ai, proposed_moves, frame,
                   converged, error, hook_calls, hook_ops, collided>>

\* step 5: blocked agents are unblocked
Unblock ==
    /\ pc = "unblock"
    /\ agents' = [i \in 1..Len(agents) |-> UnblockAgent(agents[i])]
    /\ pc' = "check"
    /\ UNCHANGED <<config_vars, graph, tick, ai, proposed_moves, frame,
                   converged, error, hook_calls, hook_ops, collided, moved>>

\* step 6: all agents completed, break
AllCompletedBreak ==
    /\ pc = "check"
    /\ all_completed(agents)
    /\ converged' = TRUE
    /\ pc' = "end"
    /\ UNCHANGED <<config_vars, graph, agents, tick, ai, proposed_moves, frame,
                   error, hook_calls, hook_ops, collided, moved>>

\* a bug: step 6 goes on without its test
NextTickNoBreak ==
    /\ pc = "check"
    /\ pc' = "loop"
    /\ UNCHANGED <<config_vars, graph, agents, tick, ai, proposed_moves, frame,
                   converged, error, hook_calls, hook_ops, collided, moved>>

\* step 6: some agent is not completed, the loop goes on
NextTick ==
    /\ pc = "check"
    /\ ~all_completed(agents)
    /\ pc' = "loop"
    /\ UNCHANGED <<config_vars, graph, agents, tick, ai, proposed_moves, frame,
                   converged, error, hook_calls, hook_ops, collided, moved>>

\* the final print reads tick
FinalPrint ==
    /\ pc = "end"
    /\ tick >= 0
    /\ pc' = "done"
    /\ UNCHANGED <<config_vars, graph, agents, tick, ai, proposed_moves, frame,
                   converged, error, hook_calls, hook_ops, collided, moved>>

\* the final print reads tick, which no iteration has bound
FinalPrintUnbound ==
    /\ pc = "end"
    /\ tick < 0
    /\ Raise("UnboundLocalError")
    /\ UNCHANGED <<graph, hook_calls, hook_ops>>

Next ==
    \/ TickStart
    \/ LoopExhausted
    \/ NoCallback
    \/ CallbackReturns
    \/ CallbackRemovesEdge
    \/ CallbackAddsEdge
    \/ CallbackUpdatesWeight
    \/ CallbackRaises
    \/ SkipInactive
    \/ MarkCompleted
    \/ LocalSAStart
    \/ SAIterate
    \/ ExtractNextHop
    \/ Arbitrate
    \/ Commit
    \/ Unblock
    \/ AllCompletedBreak
    \/ NextTick
    \/ FinalPrint
    \/ FinalPrintUnbound

Spec == Init /\ [][Next]_vars

\* ------------------------------------- agents used by a caller around a run
\* no run is in progress: before run is called, or after it returned
Outside == (pc = "loop" /\ tick = -1) \/ pc = "done"

\* agent.step_to(n) called directly
CallerStepTo ==
    /\ Outside
    /\ \E i \in 1..Len(agents), n \in Range(nodes) :
          /\ Len(agents[i].route) <= MaxCallerSteps
          /\ agents' = [agents EXCEPT ![i] = step_to(agents[i], n)]
    /\ UNCHANGED <<config_vars, graph, tick, pc, ai, proposed_moves, frame,
                   converged, error, hook_calls, hook_ops, collided, moved>>

\* agent.reset(new_start, new_goal) called directly
CallerReset ==
    /\ Outside
    /\ \E i \in 1..Len(agents), s \in Range(nodes), g \in Range(nodes) :
          agents' = [agents EXCEPT ![i] = reset(agents[i], s, g)]
    /\ UNCHANGED <<config_vars, graph, tick, pc, ai, proposed_moves, frame,
                   converged, error, hook_calls, hook_ops, collided, moved>>

\* one agent on the complete 3-node graph
InitAgents ==
    /\ Init
    /\ nodes = <<1, 2, 3>>
    /\ graph = Complete({1, 2, 3}, 1)
    /\ agents = <<Agent("A1", 1, 3)>>
    /\ max_tick \in {0, MaxTick}
    /\ cfg = DefaultConfig

NextAgents == CallerStepTo \/ CallerReset \/ Next

SpecAgents == InitAgents /\ [][NextAgents]_vars

\* three agents on the complete 3-node graph: two of them can claim the same
\* node while the third claims a node of its own, or is at its goal
InitThree ==
    /\ nodes = <<1, 2, 3>>
    /\ graph = Complete({1, 2, 3}, 1)
    /\ loaded_graph = graph
    /\ agents \in {<<Agent("A1", 1, 3), Agent("A2", 2, 3), Agent("A3", 3, g)>> :
                      g \in {1, 3}}
    /\ max_tick \in {0, 2}
    /\ event_callback \in BOOLEAN
    /\ cfg \in RunConfigs
    /\ pc = "loop"
    /\ RunLocalsInit
    /\ call = None
    /\ result = None
    /\ procs = <<>>

SpecThree == InitThree /\ [][Next]_vars

\* ------------------------------------------------- direct calls of functions
\* no run is in progress
NoRun ==
    /\ nodes = <<>>
    /\ graph = <<>>
    /\ loaded_graph = <<>>
    /\ agents = <<>>
    /\ max_tick = 0
    /\ event_callback = FALSE
    /\ cfg = DefaultConfig
    /\ pc = "idle"
    /\ RunLocalsInit

run_vars == <<nodes, graph, loaded_graph, agents, max_tick, event_callback, cfg, tick, pc, ai,
              proposed_moves, frame, converged, error, hook_calls, hook_ops,
              collided, moved>>

\* the Proposed Move Sets _detect_collisions is called with: every dict from
\* some of four agent ids to three nodes, in every insertion order
ProposedDicts ==
    {d \in UNION {[1..n -> [key : {"A1", "A2", "A3", "A4"}, value : {1, 2, 3}]] :
                     n \in 0..4} :
        \A i, j \in 1..Len(d) : i # j => d[i].key # d[j].key}

InitCollide ==
    /\ NoRun
    /\ call \in {[fn |-> "_detect_collisions", proposed_moves |-> d] :
                    d \in ProposedDicts}
    /\ result = None
    /\ procs = <<>>

\* collisions = self._detect_collisions(proposed_moves)
DetectCollisions ==
    /\ call.fn = "_detect_collisions"
    /\ result = None
    /\ result' = [collisions |-> _detect_collisions(call.proposed_moves)]
    /\ UNCHANGED <<run_vars, call, procs>>

SpecCollide == InitCollide /\ [][DetectCollisions]_vars

\* --------------------------------------------- the shared random generator
\* The module-level generator of random is one state per process: random.seed
\* sets it from the seed alone and every draw advances it. It is represented by
\* a linear congruential generator with 16 states.
SeedState(random_seed) == random_seed % 16

RngNext(x) == (5 * x + 3) % 16

\* x after n draws
RECURSIVE RngSkip(_, _)
RngSkip(x, n) == IF n = 0 THEN x ELSE RngSkip(RngNext(x), n - 1)

Swap(list, a, b) == [list EXCEPT ![a] = list[b], ![b] = list[a]]

\* random.shuffle(x): for i from len(x)-1 down to 1, j = randbelow(i+1) and
\* x[i], x[j] are swapped (i, j 0-based); returns the list and the generator
RECURSIVE ShuffleFrom(_, _, _)
ShuffleFrom(x, i, r) ==
    IF i < 1 THEN [list |-> x, rng |-> r]
    ELSE LET r2 == RngNext(r)
             j == r2 % (i + 1)
         IN  ShuffleFrom(Swap(x, i + 1, j + 1), i - 1, r2)

\* _local_sa with the generator in state r, on a problem of three nodes: the
\* shuffle decides the cycle; each mini-iteration draws for the jump test, for
\* the two sampled indices and for the acceptance test, and its only
\* neighbour is the cycle itself
SeededLocalSA(node_ids, cur, r, c) ==
    LET sh == ShuffleFrom(node_ids, Len(node_ids) - 1, r)
        route == AnchorRoute(sh.list, cur)
        nb == CHOOSE n \in quantum_jump_neighbor(Solution(route, None),
                                                  c.quantum_jump_prob) : TRUE
    IN  [best_solution |-> nb, rng |-> RngSkip(sh.rng, 4 * c.mini_iter)]

\* one tick of run for the single agent of process p
SeededTick(p) ==
    LET a == p.agent
    IN  IF a.status # "active" THEN p
        ELSE IF a.current_node = a.goal_node
        THEN [p EXCEPT !.agent.status = "completed"]
        ELSE LET sa == SeededLocalSA(<<1, 2, 3>>, a.current_node, p.rng, DefaultConfig)
                 r == sa.best_solution.routes
                 next_node == r[(IndexOf(r, a.current_node) % Len(r)) + 1]
             IN  [p EXCEPT !.agent = step_to(a, next_node), !.rng = sa.rng]

\* two processes that construct DynamicAnnealer with the same random_seed for
\* one agent from 1 to 3 on the complete 3-node graph
InitSeed ==
    /\ NoRun
    /\ call = None
    /\ result = None
    /\ \E random_seed \in 0..MaxSeed :
          procs = [k \in 1..2 |->
                      [pc |-> "new", random_seed |-> random_seed, rng |-> 0,
                       others |-> 0, tick |-> 0, agent |-> Agent("A1", 1, 3)]]

\* DynamicAnnealer.__init__: random.seed(random_seed)
SeedConstruct(k) ==
    /\ procs[k].pc = "new"
    /\ procs' = [procs EXCEPT ![k].pc = "built",
                              ![k].rng = SeedState(procs[k].random_seed)]
    /\ UNCHANGED <<run_vars, call, result>>

\* a draw made elsewhere in the process before run is called
OtherDraw(k) ==
    /\ procs[k].pc = "built"
    /\ procs[k].others < MaxOtherDraws
    /\ procs' = [procs EXCEPT ![k].rng = RngNext(procs[k].rng),
                              ![k].others = procs[k].others + 1]
    /\ UNCHANGED <<run_vars, call, result>>

\* an Annealer constructed elsewhere in the process before run is called:
\* random.seed(random_seed) with its own seed
OtherAnnealer(k) ==
    /\ procs[k].pc = "built"
    /\ procs[k].others < MaxOtherDraws
    /\ \E other_seed \in 0..MaxSeed :
          procs' = [procs EXCEPT ![k].rng = SeedState(other_seed),
                                 ![k].others = procs[k].others + 1]
    /\ UNCHANGED <<run_vars, call, result>>

\* run, tick by tick, with max_tick = SeedTicks
SeededRunTick(k) ==
    /\ procs[k].pc \in {"built", "running"}
    /\ procs[k].tick < SeedTicks
    /\ LET q == SeededTick(procs[k])
           done == q.agent.status = "completed" \/ procs[k].tick + 1 = SeedTicks
       IN  procs' = [procs EXCEPT ![k] = [q EXCEPT !.tick = procs[k].tick + 1,
                                                   !.pc = IF done THEN "done"
                                                          ELSE "running"]]
    /\ UNCHANGED <<run_vars, call, result>>

NextSeed ==
    \E k \in 1..2 : \/ SeedConstruct(k)
                    \/ OtherDraw(k)
                    \/ OtherAnnealer(k)
                    \/ SeededRunTick(k)

SpecSeed == InitSeed /\ [][NextSeed]_vars

\* ------------------------------------------------------------ dynamic_solve
\* the values a YAML or JSON file gives a node id, a start or a goal
IntV(n) == [t |-> "int", n |-> n, s |-> ""]

StrV(str) == [t |-> "str", n |-> 0, s |-> str]

\* a float, kept in tenths
FloatV(tenths) == [t |-> "float", n |-> tenths, s |-> ""]

\* the strings int() parses
IntOfStr == ("1" :> 1) @@ ("2" :> 2) @@ ("3" :> 3)

\* try_int(val): int(val), or val when int() raises; int() truncates a float
try_int(val) ==
    CASE val.t = "int" -> val
      [] val.t = "float" -> IntV(val.n \div 10)
      [] OTHER -> IF val.s \in DOMAIN IntOfStr THEN IntV(IntOfStr[val.s]) ELSE val

\* get_node_id(node) of a Node object
get_node_id(node_id) == node_id

\* the node lists and the agent rows of the files dynamic_solve is called on
ConfigNodes ==
    { <<IntV(1), IntV(2), IntV(3)>>,
      <<IntV(1), IntV(2)>>,
      <<StrV("1"), IntV(2)>> }

ConfigValues == {IntV(1), IntV(2), IntV(3), StrV("1"), StrV("x"), FloatV(15)}

ConfigRows ==
    {<<[id |-> "A1", start |-> v[1], goal |-> v[2]]>> :
        v \in ConfigValues \X ConfigValues}
    \cup
    {<<[id |-> "A1", start |-> IntV(1), goal |-> IntV(2)],
       [id |-> "A2", start |-> v[1], goal |-> v[2]]>> :
        v \in ConfigValues \X ConfigValues}

load_agents_from_config(rows) ==
    [i \in 1..Len(rows) |-> Agent(rows[i].id, rows[i].start, rows[i].goal)]

\* the sanity check of dynamic_solve passes
SanityCheck(node_list, agent_list) ==
    LET node_ids == {try_int(get_node_id(n)) : n \in Range(node_list)}
    IN  \A i \in 1..Len(agent_list) :
            /\ try_int(agent_list[i].start_node) \in node_ids
            /\ try_int(agent_list[i].goal_node) \in node_ids

InitSolve ==
    /\ NoRun
    /\ procs = <<>>
    /\ call \in {[fn |-> "dynamic_solve", nodes |-> ns, rows |-> rows,
                  max_tick |-> m] :
                    ns \in ConfigNodes, rows \in ConfigRows, m \in 0..1}
    /\ result = None

\* steps 1 and 2: the problem and the agents are loaded
SolveLoad ==
    /\ call.fn = "dynamic_solve"
    /\ result = None
    /\ nodes' = call.nodes
    /\ agents' = load_agents_from_config(call.rows)
    /\ max_tick' = call.max_tick
    /\ result' = [stage |-> "loaded"]
    /\ UNCHANGED <<graph, loaded_graph, event_callback, cfg, tick, pc, ai,
                   proposed_moves, frame, converged, error, hook_calls,
                   hook_ops, collided, moved, call, procs>>

\* step 3: the sanity check raises ValueError
SolveCheckRaises ==
    /\ result # None
    /\ result.stage = "loaded"
    /\ ~SanityCheck(nodes, agents)
    /\ result' = [stage |-> "raised"]
    /\ error' = "ValueError"
    /\ UNCHANGED <<nodes, graph, loaded_graph, agents, max_tick, event_callback,
                   cfg, tick, pc, ai, proposed_moves, frame, converged,
                   hook_calls, hook_ops, collided, moved, call, procs>>

\* steps 3 to 5: the sanity check passes, the annealer is built with on_tick
\* and run begins: with max_tick >= 1 tick 0 starts and on_tick(0) is called
SolveRunBegins ==
    /\ result # None
    /\ result.stage = "loaded"
    /\ SanityCheck(nodes, agents)
    /\ max_tick >= 1
    /\ event_callback' = TRUE
    /\ tick' = 0
    /\ hook_calls' = Append(hook_calls, 0)
    /\ result' = [stage |-> "running"]
    /\ UNCHANGED <<nodes, graph, loaded_graph, agents, max_tick, cfg, pc, ai,
                   proposed_moves, frame, converged, error, hook_ops, collided,
                   moved, call, procs>>

\* steps 3 to 5 with max_tick = 0: run executes no tick and its final print
\* raises
SolveRunEmpty ==
    /\ result # None
    /\ result.stage = "loaded"
    /\ SanityCheck(nodes, agents)
    /\ max_tick = 0
    /\ event_callback' = TRUE
    /\ result' = [stage |-> "raised"]
    /\ error' = "UnboundLocalError"
    /\ UNCHANGED <<nodes, graph, loaded_graph, agents, max_tick, cfg, tick, pc,
                   ai, proposed_moves, frame, converged, hook_calls, hook_ops,
                   collided, moved, call, procs>>

NextSolve == SolveLoad \/ SolveCheckRaises \/ SolveRunBegins \/ SolveRunEmpty

SpecSolve == InitSolve /\ [][NextSolve]_vars

\* ---------------------------------------------------------- optimize_routes
\* {agent.id: {"route": agent.route, "status": agent.status} for agent in agents}
RECURSIVE ResultData(_, _)
ResultData(agent_list, n) ==
    IF n = 0 THEN <<>>
    ELSE DictSet(ResultData(agent_list, n - 1), agent_list[n].id,
                 [route |-> agent_list[n].route, status |-> agent_list[n].status])

\* the agents load_agents_from_config builds again from the same file
ReloadAgents(agent_list) ==
    [i \in 1..Len(agent_list) |->
        Agent(agent_list[i].id, agent_list[i].start_node, agent_list[i].goal_node)]

format_solution(agent_list, node_list) ==
    [routes |-> ResultData(agent_list, Len(agent_list)),
     total_cost |-> Cost(0, 0),
     meta |-> [num_agents |-> Len(agent_list), num_nodes |-> Len(node_list),
               mode |-> "dynamic"]]

\* step 6 of dynamic_solve, after run has returned: the results are collected,
\* written and returned
SolveCollect ==
    /\ pc = "done"
    /\ result = None
    /\ result' = [results |-> ResultData(agents, Len(agents)), solution |-> None]
    /\ UNCHANGED <<run_vars, call, procs>>

\* steps 2 and 3 of optimize_routes: the problem and the agents are loaded
\* again and format_solution is given the new agents
OptimizeFormat ==
    /\ result # None
    /\ result.solution = None
    /\ result' = [result EXCEPT
                     !.solution = format_solution(ReloadAgents(agents), nodes)]
    /\ UNCHANGED <<run_vars, call, procs>>

NextOptimize == Next \/ SolveCollect \/ OptimizeFormat

SpecOptimize == Init /\ [][NextOptimize]_vars

\* ----------------------------------------------------------- tsp_total_cost
\* the routes of up to MaxRouteLen nodes over the nodes 1, 2, 3
Routes == UNION {[1..n -> {1, 2, 3}] : n \in 0..MaxRouteLen}

\* the graphs over four directed edges, each absent or of weight 1 or MaxWeight
CostGraphs ==
    LET edges == {<<1, 2>>, <<2, 1>>, <<2, 3>>, <<1, 3>>}
    IN  UNION {[present -> {1, MaxWeight}] : present \in SUBSET edges}

InitCost ==
    /\ NoRun
    /\ procs = <<>>
    /\ call \in {[fn |-> "tsp_total_cost", route |-> r, graph |-> g] :
                    r \in Routes, g \in CostGraphs}
    /\ result = None

\* total = tsp_total_cost(sol, problem): the value returned, and sol and
\* problem.graph after the call
CallCost ==
    /\ call.fn = "tsp_total_cost"
    /\ result = None
    /\ LET total == tsp_total_cost(call.route, call.graph)
       IN  result' = [total |-> total, sol |-> Solution(call.route, total),
                      graph |-> call.graph]
    /\ UNCHANGED <<run_vars, call, procs>>

SpecCost == InitCost /\ [][CallCost]_vars

\* ------------------------------------------------------ neighbour functions
\* the routes of up to MaxRouteLen + 1 nodes over the nodes 1, 2, 3
\* the candidates handed to the perturbations: routes over three nodes, not
\* yet evaluated or evaluated (here on a graph without edges)
NeighborRoutes == UNION {[1..n -> {1, 2, 3}] : n \in 0..(MaxRouteLen + 1)}

InitNeighbor ==
    /\ NoRun
    /\ procs = <<>>
    /\ call \in {[fn |-> f, route |-> r,
                  cost |-> IF evaluated THEN tsp_total_cost(r, <<>>) ELSE None] :
                    f \in {"tsp_2opt_neighbor", "quantum_jump_neighbor"},
                    r \in NeighborRoutes,
                    evaluated \in BOOLEAN}
    /\ result = None

\* neighbor = tsp_2opt_neighbor(current_solution, problem)
CallTwoOpt ==
    /\ call.fn = "tsp_2opt_neighbor"
    /\ result = None
    /\ result' \in tsp_2opt_neighbor(Solution(call.route, call.cost))
    /\ UNCHANGED <<run_vars, call, procs>>

\* neighbor = quantum_jump_neighbor(current_solution, problem, jump_prob)
CallQuantumJump ==
    /\ call.fn = "quantum_jump_neighbor"
    /\ result = None
    /\ result' \in quantum_jump_neighbor(Solution(call.route, call.cost),
                                         DefaultConfig.quantum_jump_prob)
    /\ UNCHANGED <<run_vars, call, procs>>

SpecNeighbor == InitNeighbor /\ [][CallTwoOpt \/ CallQuantumJump]_vars

\* ------------------------------------------------------------- Graph Model
\* the edges the callers of Problem mutate
GraphEdges == {<<1, 2>>, <<2, 1>>, <<2, 3>>, <<1, 3>>}

\* everything but the graph and the record of the last call
graph_rest == <<nodes, loaded_graph, agents, max_tick, event_callback, cfg,
                tick, pc, ai, proposed_moves, frame, converged, error,
                hook_calls, hook_ops, collided, moved, procs>>

\* a Problem over the nodes 1, 2, 3 as constructed, without edges or with
\* every edge of GraphEdges; call.ref is the edge map a reference
\* implementation holds for it
InitGraph ==
    /\ nodes = <<1, 2, 3>>
    /\ graph \in {<<>>, [e \in GraphEdges |-> 1]}
    /\ loaded_graph = graph
    /\ agents = <<>>
    /\ max_tick = 0
    /\ event_callback = FALSE
    /\ cfg = DefaultConfig
    /\ pc = "idle"
    /\ RunLocalsInit
    /\ procs = <<>>
    /\ call = [fn |-> "Problem", ref |-> graph]
    /\ result = None

\* problem.add_edge(s, t, w)
GraphAddEdge ==
    \E e \in GraphEdges, w \in 1..MaxWeight :
        /\ graph' = add_edge(graph, e[1], e[2], w)
        /\ call' = [call EXCEPT !.ref = (e :> w) @@ call.ref]
        /\ result' = [fn |-> "add_edge", edge |-> e, ok |-> TRUE, value |-> w]
        /\ UNCHANGED graph_rest

\* problem.remove_edge(s, t)
GraphRemoveEdge ==
    \E e \in GraphEdges :
        /\ graph' = remove_edge(graph, e[1], e[2])
        /\ call' = [call EXCEPT !.ref = [x \in DOMAIN call.ref \ {e} |-> call.ref[x]]]
        /\ result' = [fn |-> "remove_edge", edge |-> e, ok |-> TRUE, value |-> 0]
        /\ UNCHANGED graph_rest

\* problem.update_edge_weight(s, t, w): the weight is set, or KeyError is raised
GraphUpdateWeight ==
    \E e \in GraphEdges, w \in 1..MaxWeight :
        LET r == update_edge_weight(graph, e[1], e[2], w)
        IN  /\ graph' = r.graph
            /\ call' = [call EXCEPT !.ref = IF e \in DOMAIN call.ref
                                            THEN (e :> w) @@ call.ref
                                            ELSE call.ref]
            /\ result' = [fn |-> "update_edge_weight", edge |-> e, ok |-> r.ok,
                          value |-> IF r.ok THEN w ELSE 0,
                          error |-> IF r.ok THEN "none" ELSE "KeyError"]
            /\ UNCHANGED graph_rest

\* problem.distance(s, t): the weight, or ValueError is raised
GraphDistance ==
    \E s \in Range(nodes), t \in Range(nodes) :
        LET r == distance(graph, s, t)
        IN  /\ result' = [fn |-> "distance", edge |-> <<s, t>>, ok |-> r.ok,
                          value |-> IF r.ok THEN r.value ELSE 0,
                          error |-> IF r.ok THEN "none" ELSE r.value]
            /\ UNCHANGED <<graph, call, graph_rest>>

\* problem.get_neighbors(s)
GraphNeighbors ==
    \E s \in Range(nodes) :
        /\ result' = [fn |-> "get_neighbors", node |-> s,
                      value |-> get_neighbors(graph, s)]
        /\ UNCHANGED <<graph, call, graph_rest>>

NextGraph ==
    \/ GraphAddEdge
    \/ GraphRemoveEdge
    \/ GraphUpdateWeight
    \/ GraphDistance
    \/ GraphNeighbors

SpecGraph == InitGraph /\ [][NextGraph]_vars

\* ------------------------------------------------------ Agent construction
InitNewAgent ==
    /\ NoRun
    /\ procs = <<>>
    /\ call \in {[fn |-> "Agent", agent_id |-> a, start_node |-> s, goal_node |-> g] :
                    a \in {"A1", "A2", "A3", "A4"}, s \in 1..4, g \in 1..4}
    /\ result = None

\* a = Agent(agent_id, start_node, goal_node)
NewAgent ==
    /\ call.fn = "Agent"
    /\ result = None
    /\ result' = Agent(call.agent_id, call.start_node, call.goal_node)
    /\ UNCHANGED <<run_vars, call, procs>>

SpecNewAgent == InitNewAgent /\ [][NewAgent]_vars

\* ------------------------------------------------------------------ claims
\* the loop of run was left (by its break or by the end of the range)
LoopLeft == pc \in {"end", "done"} \/ (pc = "raised" /\ error = "UnboundLocalError")

\* the states between two ticks, and after the last
TickBoundary == pc \in {"loop", "hook", "end", "done", "raised"}

\* C1 as stated: a run performs at most max_tick ticks, with indices
\* 0..max_tick-1, and when its loop is left it has converged (left by the break)
\* if and only if every agent is completed.
C1_ConvergedIffAllCompleted ==
    /\ tick < max_tick \/ tick = -1
    /\ LoopLeft => (converged <=> all_completed(agents))

\* C1 amended: a run performs at most max_tick ticks, with indices
\* 0..max_tick-1; it converges only with every agent completed; when the loop is
\* left after at least one executed tick it has converged if and only if every
\* agent is completed; and no tick starts after a tick that ended with every
\* agent completed.
C1_TickBudgetAndConvergence ==
    /\ tick < max_tick \/ tick = -1
    /\ Len(hook_calls) <= max_tick
    /\ converged => all_completed(agents) /\ tick >= 0 /\ LoopLeft
    /\ LoopLeft /\ tick >= 0 => (converged <=> all_completed(agents))
    /\ pc = "hook" /\ tick > 0 => ~all_completed(agents)

\* C1 witness: a run that converged before its last tick, after a tick in which
\* it did not
C1_Witness ==
    /\ pc = "done"
    /\ converged
    /\ tick >= 1
    /\ tick + 1 < max_tick
    /\ agents # <<>>

\* C2 as stated: no error of run itself ends the run (the exceptions of the
\* event callback are the subject of C7): the run ends converged or exhausted.
C2_RunEndsNormally == ~(pc = "raised" /\ error = "UnboundLocalError")

\* C3: at every tick boundary and at the end of the run no agent is blocked, and
\* every agent blocked during the tick just executed is active.
C3_BlockingIsTransient ==
    TickBoundary \/ pc = "check" =>
        /\ \A i \in 1..Len(agents) : agents[i].status # "blocked"
        /\ \A aid \in collided : agents[AgentById(agents, aid)].status = "active"

\* C3 witness: the start of a tick after a tick in which agents were blocked
C3_Witness ==
    /\ pc = "hook"
    /\ tick >= 1
    /\ Cardinality(collided) >= 2

\* C4: an agent id is in the list _detect_collisions returns if and only if
\* another agent id of the Proposed Move Set has the same target node; the list
\* holds only ids of the set and holds no id twice.
C4_CollisionSymmetry ==
    result # None /\ call.fn = "_detect_collisions" =>
        LET d == call.proposed_moves
            c == result.collisions
        IN  /\ \A aid \in DictKeys(d) :
                   aid \in Range(c) <=>
                       \E other \in DictKeys(d) \ {aid} :
                           DictGet(d, other) = DictGet(d, aid)
            /\ Range(c) \subseteq DictKeys(d)
            /\ Cardinality(Range(c)) = Len(c)

\* C4 witness: a call that returned two colliding agents and left out a third
\* agent with a target of its own
C4_Witness ==
    /\ result # None
    /\ call.fn = "_detect_collisions"
    /\ Len(result.collisions) = 2
    /\ Len(call.proposed_moves) = 3

\* C5: an agent's status changes only from active to completed (with the
\* agent at its goal), from active to blocked (during the proposals or the
\* arbitration of a tick, the agent being one of that tick's blocked agents) and
\* from blocked to active (in step 5, at the end of the tick); a completed agent
\* never changes again.
C5_StatusTransitions ==
    [][\A i \in 1..Len(agents) :
          LET a == agents[i]
              b == agents'[i]
          IN  /\ a.status # b.status =>
                    \/ /\ a.status = "active"
                       /\ b.status = "completed"
                       /\ b.current_node = b.goal_node
                    \/ /\ a.status = "active"
                       /\ b.status = "blocked"
                       /\ pc \in {"propose", "extract"}
                       /\ b.id \in collided'
                    \/ /\ a.status = "blocked"
                       /\ b.status = "active"
                       /\ pc = "unblock"
              /\ a.status = "completed" => b = a]_vars

\* C5 witness: the end of a later tick, with an agent completed in tick 0 and
\* another agent still active after two moves
C5_Witness ==
    /\ pc = "check"
    /\ tick >= 1
    /\ \E i, j \in 1..Len(agents) :
          /\ agents[i].status = "completed"
          /\ Len(agents[i].route) = 2
          /\ agents[j].status = "active"
          /\ Len(agents[j].route) >= 3

\* C6: an agent's route history is never empty, begins with start_node and ends
\* with current_node.
C6_RouteInvariant ==
    \A i \in 1..Len(agents) :
        LET a == agents[i]
        IN  /\ Len(a.route) >= 1
            /\ a.route[1] = a.start_node
            /\ a.route[Len(a.route)] = a.current_node

\* C6 witness: an agent that was reset to another start, stepped by its caller
\* and then moved by a tick of the scheduler
C6_Witness ==
    /\ pc = "unblock"
    /\ moved # {}
    /\ \E i \in 1..Len(agents) :
          /\ agents[i].start_node = 2
          /\ Len(agents[i].route) >= 3

\* C7 as stated: an exception of the event callback does not end the run.
C7_CallbackErrorCaught ==
    ~(pc = "raised" /\ error \in {"CallbackError", "KeyError"})

\* the edges the callback removed that are still absent: only remove_edge
\* deletes an edge, and only the callback calls it during a run
RemovedEdges ==
    DOMAIN loaded_graph \ DOMAIN graph

\* C8 as stated: once the callback has removed an edge, no move committed in
\* that tick or a later one goes along it while it stays absent.
C8_NoMoveAlongRemovedEdge == \A m \in moved : <<m.from, m.to>> \notin RemovedEdges

\* the nodes reached from the nodes of S over at most k edges of g
RECURSIVE Reach(_, _, _)
Reach(g, S, k) ==
    IF k = 0 THEN S
    ELSE Reach(g, S \cup {e[2] : e \in {d \in DOMAIN g : d[1] \in S}}, k - 1)

PathExists(g, s, t) == t \in Reach(g, {s}, Cardinality(DOMAIN g))

\* C9 as stated (second half): an agent with no path of existing edges from its
\* current node to its goal does not become completed.
C9_NoCompletionWithoutPath ==
    [][\A i \in 1..Len(agents) :
          /\ agents[i].status # "completed"
          /\ ~PathExists(graph, agents[i].current_node, agents[i].goal_node)
          => agents'[i].status # "completed"]_vars

\* Scenario A: the complete 3-node graph with equal weights, one agent from 1
\* to 3, no callback, max_tick >= 3
ScenarioA ==
    /\ nodes = <<1, 2, 3>>
    /\ graph = Complete({1, 2, 3}, 1)
    /\ Len(agents) = 1
    /\ agents[1].start_node = 1
    /\ agents[1].goal_node = 3
    /\ ~event_callback
    /\ max_tick >= 3

\* C10 as stated: in Scenario A the agent is completed when the second tick
\* ends, and the final route history goes from 1 to 3 over at most 2 edges.
C10_ScenarioA ==
    ScenarioA =>
        /\ pc = "check" /\ tick >= 1 => agents[1].status = "completed"
        /\ LoopLeft => /\ agents[1].route[1] = 1
                       /\ agents[1].route[Len(agents[1].route)] = 3
                       /\ Len(agents[1].route) <= 3

\* Scenario B: two agents at nodes 1 and 2 whose only outgoing edge leads to
\* node 3, no callback, at least one tick
ScenarioB ==
    /\ nodes = <<1, 2, 3>>
    /\ loaded_graph = (<<1, 3>> :> 1) @@ (<<2, 3>> :> 1)
    /\ ~event_callback
    /\ max_tick >= 1
    /\ Len(agents) = 2
    /\ agents[1].start_node = 1
    /\ agents[2].start_node = 2

\* C11 as stated: in Scenario B both agents are blocked after the arbitration
\* and the commit of tick 0, neither has moved, and both are active again with
\* unchanged position and route history when tick 0 ends.
C11_ScenarioB ==
    ScenarioB /\ tick = 0 =>
        /\ pc = "unblock" =>
              \A i \in 1..2 : /\ agents[i].status = "blocked"
                              /\ agents[i].current_node = agents[i].start_node
                              /\ agents[i].route = <<agents[i].start_node>>
        /\ pc = "check" =>
              \A i \in 1..2 : /\ agents[i].status = "active"
                              /\ agents[i].current_node = agents[i].start_node
                              /\ agents[i].route = <<agents[i].start_node>>

\* C12 as stated: two finished runs constructed with the same random_seed on
\* the same graph and agent have identical route histories and statuses,
\* whatever else drew from the generator before run was called.
C12_SameSeedSameRoutes ==
    Len(procs) = 2 /\ procs[1].pc = "done" /\ procs[2].pc = "done" =>
        /\ procs[1].agent.route = procs[2].agent.route
        /\ procs[1].agent.status = procs[2].agent.status

\* some agent row of the call names a start or a goal that is no node id
UnknownNodeReference ==
    \E i \in 1..Len(call.rows) :
        \/ call.rows[i].start \notin Range(call.nodes)
        \/ call.rows[i].goal \notin Range(call.nodes)

\* C13 as stated: when an agent's start or goal is no node id, dynamic_solve
\* (called with a tick budget of at least one tick) goes no further than its
\* sanity check, which raises the unknown-node error: no tick begins and
\* on_tick is never called.
C13_SetupValidation ==
    (/\ call # None /\ call.fn = "dynamic_solve" /\ call.max_tick >= 1
     /\ UnknownNodeReference /\ result # None) =>
        /\ result.stage \in {"loaded", "raised"}
        /\ result.stage = "raised" => error = "ValueError"
        /\ hook_calls = <<>>
        /\ tick = -1

\* C14 as stated: the mapping dynamic_solve returns and the routes of the
\* Solution optimize_routes returns both give, for every agent id, the route
\* history and the status the run left the agent with.
C14_RunResult ==
    result # None =>
        /\ DictKeys(result.results) = {agents[i].id : i \in 1..Len(agents)}
        /\ \A i \in 1..Len(agents) :
              DictGet(result.results, agents[i].id) =
                  [route |-> agents[i].route, status |-> agents[i].status]
        /\ result.solution # None =>
              /\ DictKeys(result.solution.routes) =
                     {agents[i].id : i \in 1..Len(agents)}
              /\ \A i \in 1..Len(agents) :
                    DictGet(result.solution.routes, agents[i].id) =
                        [route |-> agents[i].route, status |-> agents[i].status]

\* the sum of the weights of the pairs of positions P of route, a pair of nodes
\* counted as often as it occurs
RECURSIVE SumPairs(_, _, _)
SumPairs(route, g, P) ==
    IF P = {} THEN 0
    ELSE LET i == CHOOSE x \in P : TRUE
         IN  g[<<route[i], route[i + 1]>>] + SumPairs(route, g, P \ {i})

\* C15: tsp_total_cost is the sum of the weights of the consecutive pairs whose
\* edge exists plus one penalty for every consecutive pair whose edge is
\* missing; a route of length 0 or 1 costs 0.
C15_CostAdditivity ==
    result # None /\ call.fn = "tsp_total_cost" =>
        LET route == call.route
            g == call.graph
            pairs == 1..(Len(route) - 1)
            present == {i \in pairs : <<route[i], route[i + 1]>> \in DOMAIN g}
        IN  /\ result.total.miss = Cardinality(pairs \ present)
            /\ result.total.sum = SumPairs(route, g, present)
            /\ Len(route) <= 1 => result.total = Cost(0, 0)

\* C15 witness: the cost of a route with one missing edge and two present ones
\* of different weights
C15_Witness ==
    /\ result # None
    /\ call.fn = "tsp_total_cost"
    /\ result.total.miss = 1
    /\ result.total.sum = 1 + MaxWeight

\* how often v occurs in the sequence q
Count(q, v) == Cardinality({i \in 1..Len(q) : q[i] = v})

\* C16: the route tsp_2opt_neighbor or quantum_jump_neighbor returns has the
\* length of the input, holds every node as often as the input does, and has
\* the first and the last element of the input.
C16_PerturbationInvariance ==
    result # None /\ call.fn \in {"tsp_2opt_neighbor", "quantum_jump_neighbor"} =>
        LET in == call.route
            out == result.routes
        IN  /\ Len(out) = Len(in)
            /\ \A v \in Range(in) \cup Range(out) : Count(out, v) = Count(in, v)
            /\ Len(in) >= 1 => out[1] = in[1] /\ out[Len(out)] = in[Len(in)]

\* C16 witness: a quantum jump that changed the inside of a 5-node route
C16_Witness ==
    /\ result # None
    /\ call.fn = "quantum_jump_neighbor"
    /\ Len(call.route) >= 5
    /\ result.routes # call.route

\* C17: after any sequence of add_edge, remove_edge and update_edge_weight,
\* distance(s, t) gives the weight the reference edge map holds for (s, t) and
\* raises when the map has no such edge, get_neighbors(s) is the set of the
\* targets of the map's edges from s, and the call just made by add_edge left
\* its edge with its weight.
C17_GraphAgreesWithReference ==
    result # None /\ call.fn = "Problem" =>
        LET ref == call.ref
        IN  /\ result.fn = "distance" =>
                  IF result.edge \in DOMAIN ref
                  THEN result.ok /\ result.value = ref[result.edge]
                  ELSE ~result.ok
            /\ result.fn = "get_neighbors" =>
                  result.value = {e[2] : e \in {x \in DOMAIN ref : x[1] = result.node}}
            /\ result.fn = "add_edge" =>
                  /\ result.edge \in DOMAIN graph
                  /\ graph[result.edge] = result.value
            /\ DOMAIN graph = DOMAIN ref
            /\ \A e \in DOMAIN ref : graph[e] = ref[e]

\* C17 witness: distance gives the new weight of an edge that was constructed
\* with another weight
C17_Witness ==
    /\ result # None
    /\ call.fn = "Problem"
    /\ result.fn = "distance"
    /\ result.ok
    /\ result.edge \in DOMAIN loaded_graph
    /\ result.value # loaded_graph[result.edge]

\* C18: a call of remove_edge raises nothing, leaves the graph without the
\* edge and every other edge with its weight, leaves the graph as it was when
\* the edge was absent, and removing the same edge again changes nothing.
C18_RemoveEdgeIdempotent ==
    [][result' # None /\ call.fn = "Problem" /\ result'.fn = "remove_edge" =>
          LET e == result'.edge
          IN  /\ result'.ok
              /\ DOMAIN graph' = DOMAIN graph \ {e}
              /\ \A x \in DOMAIN graph' : graph'[x] = graph[x]
              /\ e \notin DOMAIN graph => graph' = graph
              /\ remove_edge(graph', e[1], e[2]) = graph']_vars

\* C18 witness: remove_edge was called for an edge the graph does not have,
\* while another edge from the same source is there
C18_Witness ==
    /\ result # None
    /\ call.fn = "Problem"
    /\ result.fn = "remove_edge"
    /\ result.edge = <<1, 2>>
    /\ <<1, 2>> \notin DOMAIN graph
    /\ <<1, 3>> \in DOMAIN graph

\* C19 as stated: distance and update_edge_weight on an edge that does not
\* exist both raise the exception the cost evaluator catches and leave the
\* graph as it was; update_edge_weight on an existing edge changes the weight
\* of that edge only.
C19_MissingEdgeErrors ==
    [][result' # None /\ call.fn = "Problem"
       /\ result'.fn \in {"distance", "update_edge_weight"} =>
          LET e == result'.edge
          IN  IF e \notin DOMAIN graph
              THEN /\ ~result'.ok
                   /\ result'.error = CaughtByCost
                   /\ graph' = graph
              ELSE /\ result'.ok
                   /\ DOMAIN graph' = DOMAIN graph
                   /\ \A x \in DOMAIN graph \ {e} : graph'[x] = graph[x]
                   /\ graph'[e] = IF result'.fn = "distance" THEN graph[e]
                                  ELSE result'.value]_vars

C21_DistinctTargets ==
    \A m1 \in moved, m2 \in moved : m1.id # m2.id => m1.to # m2.to

\* C21 witness: a tick in which two agents claimed the same node and were left
\* out of the commit, while a third agent moved
C21_Witness ==
    /\ pc = "unblock"
    /\ Cardinality(collided) = 2
    /\ Cardinality(moved) = 1

\* C22: an agent of the tick's collision set is not moved by any step of the
\* tick (current_node and route history stay as they are, no step_to is made
\* for it) and is active when the tick ends; the commit step moves every agent
\* that still has a proposal to its target.
C22_CollidingAgentsStay ==
    [][/\ \A i \in 1..Len(agents) :
             agents[i].id \in collided' =>
                 /\ agents'[i].current_node = agents[i].current_node
                 /\ agents'[i].route = agents[i].route
                 /\ \A m \in moved' : m.id # agents[i].id
                 /\ pc' = "check" => agents'[i].status = "active"
       /\ pc = "commit" =>
             \A k \in 1..Len(proposed_moves) :
                 LET i == AgentById(agents, proposed_moves[k].key)
                 IN  /\ agents'[i].current_node = proposed_moves[k].value
                     /\ agents'[i].route =
                            Append(agents[i].route, proposed_moves[k].value)]_vars

\* C22 witness: the end of a tick in which two agents collided and stayed at
\* their start nodes while the third agent moved to its goal
C22_Witness ==
    /\ pc = "check"
    /\ Len(agents) = 3
    /\ collided = {"A1", "A2"}
    /\ agents[1].route = <<1>> /\ agents[1].status = "active"
    /\ agents[2].route = <<2>> /\ agents[2].status = "active"
    /\ agents[3].route = <<3, 1>> /\ agents[3].status = "completed"

\* C23: the proposal phase and the arbitration of a tick change no agent's
\* current_node or route history and leave the graph as it is; a position
\* changes only in the commit step, by step_to.
C23_TwoPhaseTick ==
    [][/\ pc \in {"propose", "sa", "extract"} =>
             /\ graph' = graph
             /\ \A i \in 1..Len(agents) :
                    /\ agents'[i].current_node = agents[i].current_node
                    /\ agents'[i].route = agents[i].route
       /\ \A i \in 1..Len(agents) :
             (\/ agents'[i].current_node # agents[i].current_node
              \/ agents'[i].route # agents[i].route) =>
                 /\ pc = "commit"
                 /\ agents'[i] = step_to(agents[i], agents'[i].current_node)]_vars

\* C23 witness: the proposals of the second tick are complete, made from the
\* positions the first tick left: an agent that moved in tick 0 proposes again
C23_Witness ==
    /\ pc = "commit"
    /\ tick = 1
    /\ \E i \in 1..Len(agents) :
          /\ Len(agents[i].route) = 2
          /\ agents[i].id \in DictKeys(proposed_moves)

\* C24: a configured callback has been called once for every tick begun so
\* far, with the indices 0, 1, 2, ... in order; in a tick it is called before
\* the first local search, whose costs are those of the graph the callback
\* left; it is not called once the run has converged, and never when no
\* callback is configured.
C24_HookOrdering ==
    /\ \A k \in 1..Len(hook_calls) : hook_calls[k] = k - 1
    /\ ~event_callback => hook_calls = <<>>
    /\ event_callback /\ pc \in {"loop", "hook", "end", "done"} /\ ~converged =>
          Len(hook_calls) = IF pc = "hook" THEN tick ELSE tick + 1
    /\ event_callback /\ pc \in {"propose", "sa", "extract", "commit", "unblock", "check"} =>
          Len(hook_calls) = tick + 1
    /\ converged => Len(hook_calls) = IF event_callback THEN tick + 1 ELSE 0
    /\ pc \in {"sa", "extract"} =>
          frame.best_cost = tsp_total_cost(frame.best_solution.routes, graph)

\* C24 witness: a local search in the third tick, after the third call of the
\* callback, on a graph the callback has changed
C24_Witness ==
    /\ pc = "sa"
    /\ event_callback
    /\ hook_calls = <<0, 1, 2>>
    /\ graph # loaded_graph

\* C25: _local_sa returns the best candidate found; in particular, when the
\* mini-SA loop ends, the candidate it leaves for return costs no more than
\* the candidate that was current (the initial one or an accepted one) when
\* its last pass began.
C25_ReturnsBest ==
    [][pc = "sa" /\ pc' = "extract" =>
          ~CostLess(frame.best_cost, frame'.best_cost)]_vars

\* a route that starts and ends at cur and has every other node of node_ids
\* exactly once in between
IsCycleFrom(route, node_ids, cur) ==
    /\ Len(route) = Len(node_ids) + 1
    /\ route[1] = cur
    /\ route[Len(route)] = cur
    /\ \A n \in Range(node_ids) \ {cur} :
          Cardinality({p \in 2..(Len(route) - 1) : route[p] = n}) = 1

\* C26: on a graph of at least two nodes with unique ids, the agent's current
\* node among them, the current candidate of a local search (the initial one,
\* an accepted one, the returned one) and every candidate the perturbation
\* can create from it start and end at the current node and have every other
\* node exactly once in between.
C26_CandidateStructure ==
    (/\ pc \in {"sa", "extract"}
     /\ Len(nodes) >= 2
     /\ Cardinality(Range(nodes)) = Len(nodes)
     /\ agents[ai].current_node \in Range(nodes))
    => /\ IsCycleFrom(frame.best_solution.routes, nodes, agents[ai].current_node)
       /\ \A nb \in quantum_jump_neighbor(frame.best_solution, cfg.quantum_jump_prob) :
             IsCycleFrom(nb.routes, nodes, agents[ai].current_node)

\* C26 witness: the candidate returned in the second tick, from a node the
\* agent moved to, after a perturbed candidate was accepted
C26_Witness ==
    /\ pc = "extract"
    /\ tick = 1
    /\ Len(nodes) = 4
    /\ agents[ai].current_node = 3
    /\ frame.iter >= 1
    /\ frame.best_solution.routes = <<3, 1, 4, 2, 3>>

\* C27: the candidate a perturbation returns has the cost None, whatever the
\* input route and whatever the cost of the input candidate.
C27_CostUnknown == result # None => result.total_cost = None

\* C28: during a run every step leaves an agent's route as it is or, in the
\* commit of a tick, appends one node, the agent's new current node; after k
\* executed ticks a route has at most k + 1 entries.
C28_RouteAppendOnly ==
    /\ [][\A i \in 1..Len(agents) :
             \/ agents'[i].route = agents[i].route
             \/ /\ pc = "commit"
                /\ agents'[i].route =
                      Append(agents[i].route, agents'[i].current_node)]_vars
    /\ [](\A i \in 1..Len(agents) :
             Len(agents[i].route) <=
                (IF pc \in {"hook", "propose", "sa", "extract", "commit"}
                 THEN tick ELSE tick + 1) + 1)

\* C28 witness: after three ticks one agent has moved in each of them and the
\* other in the first only
C28_Witness ==
    /\ pc = "check"
    /\ tick = 2
    /\ Len(agents) = 2
    /\ agents[1].route = <<1, 2, 1, 2>>
    /\ agents[2].route = <<2, 3>>

\* C29: for every route and every graph tsp_total_cost raises nothing (every
\* failure of distance is of the kind it catches), returns a finite cost (at
\* most one penalty or one weight for each pair of the route), leaves the
\* graph and the route as they were and stores the returned value as the
\* candidate's cost.
C29_CostTotal ==
    result # None /\ call.fn = "tsp_total_cost" =>
        LET route == call.route
            pairs == 1..(Len(route) - 1)
        IN  /\ \A i \in pairs :
                  LET d == distance(call.graph, route[i], route[i + 1])
                  IN  d.ok \/ d.value = CaughtByCost
            /\ result.total.miss \in 0..Cardinality(pairs)
            /\ result.total.sum \in 0..(MaxWeight * Cardinality(pairs))
            /\ result.graph = call.graph
            /\ result.sol.routes = route
            /\ result.sol.total_cost = result.total

\* C29 witness: the cost of a cycle through a node without edges, on a graph
\* with one edge
C29_Witness ==
    /\ result # None
    /\ call.fn = "tsp_total_cost"
    /\ call.route = <<1, 2, 3, 1>>
    /\ call.graph = (<<1, 2>> :> MaxWeight)
    /\ result.total = Cost(2, MaxWeight)
    /\ result.sol = Solution(<<1, 2, 3, 1>>, Cost(2, MaxWeight))

\* C30: at the end of a tick an agent is completed exactly when it is at its
\* goal; an agent whose start is its goal is completed at the end of tick 0
\* and its route is its start node alone throughout.
C30_CompletedIffAtGoal ==
    \A i \in 1..Len(agents) :
        LET a == agents[i]
        IN  /\ pc = "check" => (a.status = "completed" <=> a.current_node = a.goal_node)
            /\ a.start_node = a.goal_node => a.route = <<a.start_node>>

\* C30 witness: the end of the second tick with one agent completed at its
\* start, one completed by a move and one still on its way
C30_Witness ==
    /\ pc = "check"
    /\ tick = 1
    /\ Len(agents) = 3
    /\ agents[3].start_node = agents[3].goal_node
    /\ agents[3].status = "completed"
    /\ agents[1].status = "completed"
    /\ Len(agents[1].route) = 3
    /\ agents[2].status = "active"
    /\ agents[2].current_node # agents[2].goal_node

\* C31: on a graph of at least two nodes with unique ids the candidate a local
\* search returns holds the agent's current node, so the fallback is not
\* taken; the next hop is the candidate's second element, a graph node other
\* than the current node; every recorded proposal differs from its agent's
\* position, and no route has two equal consecutive entries.
C31_NextHopIsSecondElement ==
    (Len(nodes) >= 2 /\ Cardinality(Range(nodes)) = Len(nodes))
    => /\ pc = "extract" =>
             LET routes == frame.best_solution.routes
                 cur == agents[ai].current_node
             IN  /\ cur \in Range(routes)
                 /\ NextHops(routes, cur, graph) = {routes[2]}
                 /\ routes[2] \in Range(nodes)
                 /\ routes[2] # cur
       /\ pc \in {"propose", "sa", "extract", "commit"} =>
             \A k \in 1..Len(proposed_moves) :
                proposed_moves[k].value #
                   agents[AgentById(agents, proposed_moves[k].key)].current_node
       /\ \A i \in 1..Len(agents) :
             \A k \in 1..(Len(agents[i].route) - 1) :
                agents[i].route[k] # agents[i].route[k + 1]

\* C31 witness: the candidate returned in the third tick to an agent that went
\* from node 1 to node 2 and back
C31_Witness ==
    /\ pc = "extract"
    /\ tick = 2
    /\ agents[ai].route = <<1, 2, 1>>
    /\ frame.best_solution.routes = <<1, 3, 2, 1>>

\* C32: no two agents are at the same node: after the commit of a tick, and
\* between ticks, the agents' current nodes are pairwise different.
C32_NoSharedNode ==
    \A i \in 1..Len(agents), j \in 1..Len(agents) :
        i # j => agents[i].current_node # agents[j].current_node

====
